---- MODULE Spec2Model ----
(***************************************************************************)
(* Model of the request-security core of quasarflow-api: the JWT token     *)
(* service (middleware/auth.go), the per-client rate limiter with its      *)
(* background sweep (middleware/rate_limit.go), the middleware chain       *)
(* assembled by SetupRouter (internal/interface/http/router.go) and the    *)
(* wallet ownership verification (usecase/wallet/verify_ownership.go).     *)
(*                                                                         *)
(* Time is a global clock `now` counted in ticks.  One second is           *)
(* TicksPerSecond ticks, so that the truncation of JWT NumericDate values  *)
(* to whole seconds is visible.                                            *)
(***************************************************************************)
EXTENDS Integers, Sequences, FiniteSets, TLC

VARIABLES
    now,          \* time.Now(), in ticks
    limiters,     \* rlm.limiters: client key -> [limiter (heap id), lastSeen]
    heap,         \* the *rate.Limiter objects ever allocated, by id
    mu,           \* rlm.mu (sync.RWMutex): [w: write holder, r: set of read holders]
    pc,           \* position of every request worker in the middleware chain
    req,          \* the request a worker is serving
    lim,          \* the *rate.Limiter a worker got back from getLimiter
    resp,         \* the response (and the stages reached) of a worker's request
    sweepPc,      \* position of the goroutine started by startCleanup
    cutoff,       \* cleanup's local variable cutoff
    tickPending,  \* a tick is buffered in rlm.cleanupTick.C
    stopped,      \* rlm.cleanupTick.Stop() was called
    closed,       \* rlm.done is closed
    statsPc,      \* position of a caller of GetStats
    issued,       \* tokens handed out by GenerateToken, with their issue time
    vres,         \* last call of validateToken: token, times, result
    aresp,        \* last call of RequireAuth on its own: header and response
    rres,         \* last call of a RequireRole handler: context and response
    challenges,   \* the challenges GenerateChallenge has returned so far
    vo,           \* last ownership verification: strategy, inputs, result
    cres,         \* last GET challenge request of every worker and its response
    kres,         \* last string put to the address validators, and their answers
    hist          \* per client key: what a single bucket that is never evicted
                  \* would hold, and the key's latest pass through Allow

vars == <<now, limiters, heap, mu, pc, req, lim, resp, sweepPc, cutoff,
          tickPending, stopped, closed, statsPc, issued, vres, aresp,
          rres, challenges, vo, cres, kres, hist>>

limiterVars == <<limiters, heap, mu, pc, req, lim, resp, sweepPc, cutoff,
                 tickPending, stopped, closed, statsPc>>

tokenVars == <<issued, vres, aresp>>

keyVars == <<cres, kres>>

ownerVars == <<rres, challenges, vo, keyVars>>

----------------------------------------------------------------------------
(* Bounds of the model *)

MaxTime == 3            \* the clock stops here
TicksPerSecond == 2     \* resolution of the clock
TokenDuration == 2      \* AuthConfig.TokenDuration, in ticks
BurstSize == 2          \* RateLimitConfig.BurstSize
TicksPerToken == 2      \* 1 / RateLimitConfig.RequestsPerSecond, in ticks
CleanupInterval == 1    \* RateLimitConfig.CleanupInterval, in ticks
MaxLimiters == 2        \* rate.Limiter objects allocated in one run
MaxIssued == 1          \* tokens GenerateToken hands out in one run
TxMaxAge == 2           \* the 24 hours of VerifyOwnershipByTransaction, in ticks
AcctMaxAge == 2         \* the 30 days of VerifyOwnershipByAccount, in ticks
MaxChallenges == 1      \* challenges GenerateChallenge hands out in one run

(* Program constants *)

defaultCleanupMultiplier == 2
StatusNoContent == 204
StatusOK == 200
StatusTooManyRequests == 429

NoClaim == -1           \* a registered claim that is absent from the token (nil)
None == [none |-> TRUE]

----------------------------------------------------------------------------
(* Token service: middleware/auth.go *)

SecretKey == "secret"            \* am.config.SecretKey
Issuer == "quasarflow-api"       \* am.config.Issuer
HMACMethod == "HS256"

\* signing methods whose type is *jwt.SigningMethodHMAC
SigningMethodHMAC == {"HS256", "HS384", "HS512"}
\* signing methods registered with the jwt library
RegisteredMethods == SigningMethodHMAC \cup {"RS256", "ES256", "none"}

\* the identities logins are made for: <<user id, role>>
Logins == {<<"demo-user-id", "user">>, <<"u2", "admin">>}

\* jwt.NewNumericDate: the time truncated to whole seconds
NewNumericDate(t) == (t \div TicksPerSecond) * TicksPerSecond

\* token.SignedString / the MAC carried by a token: which key made it and
\* whether it was computed, with the header's algorithm, over exactly this
\* token's header and claims
SignedString(alg, claims, key) ==
    [wf |-> TRUE, alg |-> alg, claims |-> claims,
     sig |-> [key |-> key, intact |-> TRUE]]

GenerateToken_SwapsClaims(userID, role, t) ==
    SignedString("HS256",
        [user_id |-> role, role |-> userID, iss |-> Issuer, sub |-> userID,
         iat |-> NewNumericDate(t),
         exp |-> NewNumericDate(t + TokenDuration),
         nbf |-> NewNumericDate(t)],
        SecretKey)

\* AuthMiddleware.GenerateToken called at time t
GenerateToken(userID, role, t) ==
    SignedString("HS256",
        [user_id |-> userID, role |-> role, iss |-> Issuer, sub |-> userID,
         iat |-> NewNumericDate(t),
         exp |-> NewNumericDate(t + TokenDuration),
         nbf |-> NewNumericDate(t)],
        SecretKey)

NoClaims == [user_id |-> "", role |-> "", iss |-> "", sub |-> "",
             iat |-> NoClaim, exp |-> NoClaim, nbf |-> NoClaim]

Rejected(errs, keyed) ==
    [ok |-> FALSE, err |-> errs, keyed |-> keyed, claims |-> NoClaims]

\* the key function passed to jwt.ParseWithClaims: TRUE when it returns the secret
Keyfunc_NoMethodCheck(alg) == TRUE

Keyfunc(alg) == alg \in SigningMethodHMAC

\* the library's claims validator, run at time t: the set of failures
ClaimsErrors(claims, t) ==
    (IF claims.exp # NoClaim /\ ~(t < claims.exp)
        THEN {"jwt.ErrTokenExpired"} ELSE {})
    \cup
    (IF claims.nbf # NoClaim /\ t < claims.nbf
        THEN {"jwt.ErrTokenNotValidYet"} ELSE {})

validateToken_NoIssuerCheck(tok, t1, t2) ==
    IF ~tok.wf THEN Rejected({"jwt.ErrTokenMalformed"}, FALSE)
    ELSE IF tok.alg \notin RegisteredMethods
        THEN Rejected({"jwt.ErrTokenUnverifiable"}, FALSE)
    ELSE IF ~Keyfunc(tok.alg)
        THEN Rejected({"jwt.ErrTokenUnverifiable", "Unexpected signing method"}, FALSE)
    ELSE IF ~(tok.sig.key = SecretKey /\ tok.sig.intact)
        THEN Rejected({"jwt.ErrTokenSignatureInvalid"}, TRUE)
    ELSE IF ClaimsErrors(tok.claims, t1) # {}
        THEN Rejected({"jwt.ErrTokenInvalidClaims"} \cup ClaimsErrors(tok.claims, t1), TRUE)
    ELSE IF tok.claims.exp # NoClaim /\ tok.claims.exp < t2
        THEN Rejected({"errors.ErrTokenExpired"}, TRUE)
    ELSE [ok |-> TRUE, err |-> {}, keyed |-> TRUE, claims |-> tok.claims]

validateToken_NoExpiryCheck(tok, t1, t2) ==
    IF ~tok.wf THEN Rejected({"jwt.ErrTokenMalformed"}, FALSE)
    ELSE IF tok.alg \notin RegisteredMethods
        THEN Rejected({"jwt.ErrTokenUnverifiable"}, FALSE)
    ELSE IF ~Keyfunc(tok.alg)
        THEN Rejected({"jwt.ErrTokenUnverifiable", "Unexpected signing method"}, FALSE)
    ELSE IF ~(tok.sig.key = SecretKey /\ tok.sig.intact)
        THEN Rejected({"jwt.ErrTokenSignatureInvalid"}, TRUE)
    ELSE IF tok.claims.iss # Issuer
        THEN Rejected({"errors.ErrInvalidTokenIssuer"}, TRUE)
    ELSE [ok |-> TRUE, err |-> {}, keyed |-> TRUE, claims |-> tok.claims]

\* AuthMiddleware.validateToken; the library reads the clock at t1 when it
\* validates the registered claims, the function's own expiry check reads it
\* again at t2 >= t1
validateToken(tok, t1, t2) ==
    IF ~tok.wf THEN Rejected({"jwt.ErrTokenMalformed"}, FALSE)
    ELSE IF tok.alg \notin RegisteredMethods
        THEN Rejected({"jwt.ErrTokenUnverifiable"}, FALSE)
    ELSE IF ~Keyfunc(tok.alg)
        THEN Rejected({"jwt.ErrTokenUnverifiable", "Unexpected signing method"}, FALSE)
    ELSE IF ~(tok.sig.key = SecretKey /\ tok.sig.intact)
        THEN Rejected({"jwt.ErrTokenSignatureInvalid"}, TRUE)
    ELSE IF ClaimsErrors(tok.claims, t1) # {}
        THEN Rejected({"jwt.ErrTokenInvalidClaims"} \cup ClaimsErrors(tok.claims, t1), TRUE)
    ELSE IF tok.claims.iss # Issuer
        THEN Rejected({"errors.ErrInvalidTokenIssuer"}, TRUE)
    ELSE IF tok.claims.exp # NoClaim /\ tok.claims.exp < t2
        THEN Rejected({"errors.ErrTokenExpired"}, TRUE)
    ELSE [ok |-> TRUE, err |-> {}, keyed |-> TRUE, claims |-> tok.claims]

\* pkg/errors/domain_errors.go
ErrMissingAuthHeader == [StatusCode |-> 401, Message |-> "Authorization header is required"]
ErrInvalidAuthFormat == [StatusCode |-> 401, Message |-> "Invalid authorization header format"]
ErrInvalidToken == [StatusCode |-> 401, Message |-> "Invalid or expired token"]
ErrRateLimitExceeded ==
    [StatusCode |-> StatusTooManyRequests,
     Message |-> "Rate limit exceeded. Please try again later."]

\* an Authorization header: absent (""), without the "Bearer " prefix, or
\* "Bearer " followed by a token string
NoHeader == [present |-> FALSE, bearer |-> FALSE, tok |-> None]
BasicHeader == [present |-> TRUE, bearer |-> FALSE, tok |-> None]
Bearer(tok) == [present |-> TRUE, bearer |-> TRUE, tok |-> tok]

AuthReject(e) ==
    [status |-> e.StatusCode, msg |-> e.Message, next |-> FALSE,
     user_id |-> "", role |-> ""]

RequireAuth_OneMessage(h, t1, t2) ==
    IF ~h.present THEN AuthReject(ErrInvalidToken)
    ELSE IF ~h.bearer THEN AuthReject(ErrInvalidToken)
    ELSE IF ~validateToken(h.tok, t1, t2).ok THEN AuthReject(ErrInvalidToken)
    ELSE [status |-> 0, msg |-> "", next |-> TRUE,
          user_id |-> validateToken(h.tok, t1, t2).claims.user_id,
          role |-> validateToken(h.tok, t1, t2).claims.role]

RequireAuth_LeaksCause(h, t1, t2) ==
    IF ~h.present THEN AuthReject(ErrMissingAuthHeader)
    ELSE IF ~h.bearer THEN AuthReject(ErrInvalidAuthFormat)
    ELSE IF "errors.ErrTokenExpired" \in validateToken(h.tok, t1, t2).err
        THEN AuthReject([StatusCode |-> 401, Message |-> "Token has expired"])
    ELSE IF "errors.ErrInvalidTokenIssuer" \in validateToken(h.tok, t1, t2).err
        THEN AuthReject([StatusCode |-> 401, Message |-> "Invalid token issuer"])
    ELSE IF ~validateToken(h.tok, t1, t2).ok THEN AuthReject(ErrInvalidToken)
    ELSE [status |-> 0, msg |-> "", next |-> TRUE,
          user_id |-> validateToken(h.tok, t1, t2).claims.user_id,
          role |-> validateToken(h.tok, t1, t2).claims.role]

RequireAuth_AnyBearer(h, t1, t2) ==
    IF ~h.present THEN AuthReject(ErrMissingAuthHeader)
    ELSE IF ~h.bearer THEN AuthReject(ErrInvalidAuthFormat)
    ELSE [status |-> 0, msg |-> "", next |-> TRUE,
          user_id |-> h.tok.claims.user_id, role |-> h.tok.claims.role]

\* AuthMiddleware.RequireAuth, up to the call of the next handler: the
\* response it writes, or next = TRUE with the identity put in the context
RequireAuth(h, t1, t2) ==
    IF ~h.present THEN AuthReject(ErrMissingAuthHeader)
    ELSE IF ~h.bearer THEN AuthReject(ErrInvalidAuthFormat)
    ELSE IF ~validateToken(h.tok, t1, t2).ok THEN AuthReject(ErrInvalidToken)
    ELSE [status |-> 0, msg |-> "", next |-> TRUE,
          user_id |-> validateToken(h.tok, t1, t2).claims.user_id,
          role |-> validateToken(h.tok, t1, t2).claims.role]

\* pkg/errors/domain_errors.go
ErrUserRoleNotFound == [StatusCode |-> 403, Message |-> "User role not found"]
ErrInsufficientPermissions == [StatusCode |-> 403, Message |-> "Insufficient permissions"]

\* the value stored under UserRoleKey in a request context: absent, or the
\* role string RequireAuth put there
NoRole == [ok |-> FALSE, role |-> ""]
CtxRole(r) == [ok |-> TRUE, role |-> r]

RequireRole_PresentIsEnough(requiredRole, ctx) ==
    IF ~ctx.ok THEN AuthReject(ErrUserRoleNotFound)
    ELSE [status |-> 0, msg |-> "", next |-> TRUE, user_id |-> "", role |-> ctx.role]

\* AuthMiddleware.RequireRole(requiredRole), up to the call of the next handler
RequireRole(requiredRole, ctx) ==
    IF ~ctx.ok THEN AuthReject(ErrUserRoleNotFound)
    ELSE IF ctx.role # requiredRole THEN AuthReject(ErrInsufficientPermissions)
    ELSE [status |-> 0, msg |-> "", next |-> TRUE, user_id |-> "", role |-> ctx.role]

----------------------------------------------------------------------------
(* Router: internal/interface/http/router.go *)

Workers == {"w1", "w2"}
OneWorker == {"w1"}
ClientKeys == {"10.0.0.1", "10.0.0.2"}
OneKey == {"10.0.0.1"}
NoOne == "nobody"

Methods == {"GET", "POST", "OPTIONS"}
Paths == {"/auth/logout", "/api/v1/me"}

\* the routes registered by SetupRouter that the model exercises
Routes ==
    { [path |-> "/auth/logout", method |-> "POST", protected |-> FALSE],
      [path |-> "/api/v1/me", method |-> "GET", protected |-> TRUE] }

\* mux.Router.Match: the middleware chain is built only for a request that
\* matches a route by path and method; otherwise the router's own 405 or 404
\* handler answers
Match(method, path) ==
    IF \E r \in Routes : r.path = path /\ r.method = method
        THEN [status |-> 0,
              protected |-> (CHOOSE r \in Routes : r.path = path /\ r.method = method).protected]
    ELSE IF \E r \in Routes : r.path = path
        THEN [status |-> 405, protected |-> FALSE]
    ELSE [status |-> 404, protected |-> FALSE]

\* the token the clients of the model present: issued by a login at time 0
LoginToken == GenerateToken("demo-user-id", "user", 0)
AuthHeaders == {NoHeader, Bearer(LoginToken)}

\* what the chain keeps of a request: its client key (getClientIP) and
\* whether its route lies under the protected /api/v1 subrouter
NoReq == [key |-> "", protected |-> FALSE]

\* a response not written yet; admitted/auth/handler record the stages the
\* request reached, tries the calls of limiter.Allow made for it, logged the
\* status in Logger's record of the request (0: no record), panicked that
\* Recovery recovered a panic of a later stage
NoResp == [status |-> 0, msg |-> "", by |-> "", admitted |-> FALSE,
           auth |-> FALSE, handler |-> FALSE, tries |-> 0,
           user_id |-> "", role |-> "", logged |-> 0, panicked |-> FALSE]

----------------------------------------------------------------------------
(* Rate limiter: middleware/rate_limit.go *)

Min(a, b) == IF a < b THEN a ELSE b

\* rate.NewLimiter(RequestsPerSecond, BurstSize).  Tokens are counted in
\* units of 1/TicksPerToken token, so one tick refills one unit.  The last
\* three fields are history: fresh - the clock has not moved since the
\* limiter was made; calls - the Allow calls it got while fresh; idle - the
\* ticks since its latest Allow call, counted up to TicksPerToken.
NewLimiter ==
    [tokens |-> BurstSize * TicksPerToken, last |-> 0,
     fresh |-> TRUE, calls |-> 0, idle |-> TicksPerToken]

\* a limiter object nothing refers to any more (garbage)
Dead == [tokens |-> 0, last |-> 0, fresh |-> FALSE, calls |-> 0, idle |-> 0]

\* rate.Limiter.advance: the tokens available at time t
Advance(b, t) ==
    LET last == IF t < b.last THEN t ELSE b.last
    IN  Min(b.tokens + (t - last), BurstSize * TicksPerToken)

AllowOK_NoRefill(b, t) == BurstSize >= 1 /\ b.tokens - TicksPerToken >= 0

\* rate.Limiter.Allow: is one token available at time t
AllowOK(b, t) == BurstSize >= 1 /\ Advance(b, t) - TicksPerToken >= 0

\* rate.Limiter.Allow: the limiter's state after the call at time t
AllowState(b, t) ==
    [ (IF AllowOK(b, t)
         THEN [b EXCEPT !.tokens = Advance(b, t) - TicksPerToken, !.last = t]
         ELSE b)
      EXCEPT !.calls = IF b.fresh THEN Min(b.calls + 1, BurstSize + 1) ELSE 0,
             !.idle = 0 ]

\* sync.RWMutex
Lock(t) == mu.w = NoOne /\ mu.r = {} /\ mu' = [mu EXCEPT !.w = t]
Unlock(t) == mu' = [mu EXCEPT !.w = IF mu.w = t THEN NoOne ELSE mu.w]
RLock(t) == mu.w = NoOne /\ mu' = [mu EXCEPT !.r = mu.r \cup {t}]
RUnlock(t) == mu' = [mu EXCEPT !.r = mu.r \ {t}]

Stale_After(e, c) == e.lastSeen > c

\* cleanup's test limiter.lastSeen.Before(cutoff)
Stale(e, c) == e.lastSeen < c

Restrict(f, S) == [k \in S |-> f[k]]

\* the limiter objects still referred to: by the map m, or by a worker that
\* holds the pointer getLimiter returned and has not called Allow yet
Live(m, l, p) ==
    {m[k].limiter : k \in DOMAIN m} \cup {l[w] : w \in {x \in Workers : p[x] = "Allow"}}

\* the garbage collector: objects no longer referred to are gone
Collect(h, live) == [i \in DOMAIN h |-> IF i \in live THEN h[i] ELSE Dead]

\* history of a client key before its first request: ref is a bucket made by
\* rate.NewLimiter that is never evicted, lead the number of requests ref
\* has admitted minus the number the middleware has admitted, lastReq the
\* time of the key's latest Allow call, bucket the limiter object that call
\* was made on
NoHistory ==
    [ref |-> [tokens |-> BurstSize * TicksPerToken, last |-> 0],
     lead |-> 0, lastReq |-> 0 - 1, bucket |-> 0, admitted |-> FALSE]

\* the history of a key after an Allow call at time t on limiter object i
\* whose state is b: ref gets the same call
Traced(h, b, i, t) ==
    [ref |-> IF AllowOK(h.ref, t)
                THEN [tokens |-> Advance(h.ref, t) - TicksPerToken, last |-> t]
                ELSE h.ref,
     lead |-> h.lead + (IF AllowOK(h.ref, t) THEN 1 ELSE 0)
                     - (IF AllowOK(b, t) THEN 1 ELSE 0),
     lastReq |-> t, bucket |-> i, admitted |-> AllowOK(b, t)]

\* A request arrives at a worker: mux matching, then Logger, Recovery,
\* SecurityHeaders, CORS and RequestID, up to RateLimit's call of getLimiter
StartRequest(w, method, path, key) ==
    /\ pc[w] \in {"idle", "done"}
    /\ LET m == Match(method, path) IN
        IF m.status # 0 THEN
            /\ pc' = [pc EXCEPT ![w] = "done"]
            /\ req' = [req EXCEPT ![w] = NoReq]
            /\ resp' = [resp EXCEPT ![w] = [NoResp EXCEPT !.status = m.status, !.by = "mux"]]
        ELSE IF method = "OPTIONS" THEN
            /\ pc' = [pc EXCEPT ![w] = "done"]
            /\ req' = [req EXCEPT ![w] = NoReq]
            /\ resp' = [resp EXCEPT ![w] = [NoResp EXCEPT !.status = StatusNoContent, !.by = "CORS",
                                       !.logged = StatusNoContent]]
        ELSE
            /\ pc' = [pc EXCEPT ![w] = "getLimiter"]
            /\ req' = [req EXCEPT ![w] = [key |-> key, protected |-> m.protected]]
            /\ resp' = [resp EXCEPT ![w] = NoResp]
    /\ UNCHANGED <<now, limiters, heap, mu, lim, sweepPc, cutoff, tickPending, stopped,
                   closed, statsPc, tokenVars, ownerVars, hist>>

getLimiter_Lock_NoLock(w) ==
    /\ pc[w] = "getLimiter"
    /\ req[w].key \in DOMAIN limiters \/ Len(heap) < MaxLimiters
    /\ pc' = [pc EXCEPT ![w] = "getLimiter_cs"]
    /\ UNCHANGED <<now, limiters, heap, mu, req, lim, resp, sweepPc, cutoff, tickPending,
                   stopped, closed, statsPc, tokenVars, ownerVars, hist>>

\* getLimiter: rlm.mu.Lock()
getLimiter_Lock(w) ==
    /\ pc[w] = "getLimiter"
    /\ req[w].key \in DOMAIN limiters \/ Len(heap) < MaxLimiters
    /\ Lock(w)
    /\ pc' = [pc EXCEPT ![w] = "getLimiter_cs"]
    /\ UNCHANGED <<now, limiters, heap, req, lim, resp, sweepPc, cutoff, tickPending,
                   stopped, closed, statsPc, tokenVars, ownerVars, hist>>

\* getLimiter: look the key up, create the entry when absent, unlock (deferred)
getLimiter(w) ==
    /\ pc[w] = "getLimiter_cs"
    /\ LET key == req[w].key IN
        IF key \in DOMAIN limiters THEN
            /\ lim' = [lim EXCEPT ![w] = limiters[key].limiter]
            /\ UNCHANGED <<limiters, heap>>
        ELSE
            /\ Len(heap) < MaxLimiters
            /\ heap' = Append(heap, NewLimiter)
            /\ limiters' = [k \in DOMAIN limiters \cup {key} |->
                              IF k = key THEN [limiter |-> Len(heap) + 1, lastSeen |-> now]
                              ELSE limiters[k]]
            /\ lim' = [lim EXCEPT ![w] = Len(heap) + 1]
    /\ Unlock(w)
    /\ pc' = [pc EXCEPT ![w] = "Allow"]
    /\ UNCHANGED <<now, req, resp, sweepPc, cutoff, tickPending, stopped, closed,
                   statsPc, tokenVars, ownerVars, hist>>

Allow_NoReturn(w) ==
    /\ pc[w] = "Allow"
    /\ pc' = [pc EXCEPT ![w] = "updateLastSeen"]
    /\ IF AllowOK(heap[lim[w]], now) THEN
            resp' = [resp EXCEPT ![w].admitted = TRUE, ![w].tries = @ + 1]
       ELSE
            resp' = [resp EXCEPT ![w].status = ErrRateLimitExceeded.StatusCode,
                                 ![w].msg = ErrRateLimitExceeded.Message,
                                 ![w].by = "RateLimit",
                                 ![w].logged = ErrRateLimitExceeded.StatusCode,
                                 ![w].tries = @ + 1]
    /\ lim' = [lim EXCEPT ![w] = 0]
    /\ heap' = Collect([heap EXCEPT ![lim[w]] = AllowState(heap[lim[w]], now)],
                       Live(limiters, lim', pc'))
    /\ UNCHANGED <<now, limiters, mu, req, sweepPc, cutoff, tickPending, stopped,
                   closed, statsPc, tokenVars, ownerVars>>

\* RateLimit: limiter.Allow(), and the 429 response when it says no
Allow(w) ==
    /\ pc[w] = "Allow"
    /\ IF AllowOK(heap[lim[w]], now) THEN
            /\ pc' = [pc EXCEPT ![w] = "updateLastSeen"]
            /\ resp' = [resp EXCEPT ![w].admitted = TRUE, ![w].tries = @ + 1]
            /\ req' = req
       ELSE
            /\ pc' = [pc EXCEPT ![w] = "done"]
            /\ resp' = [resp EXCEPT ![w].status = ErrRateLimitExceeded.StatusCode,
                                    ![w].msg = ErrRateLimitExceeded.Message,
                                    ![w].by = "RateLimit",
                                    ![w].logged = ErrRateLimitExceeded.StatusCode,
                                    ![w].tries = @ + 1]
            /\ req' = [req EXCEPT ![w] = NoReq]
    /\ lim' = [lim EXCEPT ![w] = 0]
    /\ heap' = Collect([heap EXCEPT ![lim[w]] = AllowState(heap[lim[w]], now)],
                       Live(limiters, lim', pc'))
    /\ UNCHANGED <<now, limiters, mu, sweepPc, cutoff, tickPending, stopped,
                   closed, statsPc, tokenVars, ownerVars>>

\* updateLastSeen: rlm.mu.Lock()
updateLastSeen_Lock(w) ==
    /\ pc[w] = "updateLastSeen"
    /\ Lock(w)
    /\ pc' = [pc EXCEPT ![w] = "updateLastSeen_cs"]
    /\ UNCHANGED <<now, limiters, heap, req, lim, resp, sweepPc, cutoff, tickPending,
                   stopped, closed, statsPc, tokenVars, ownerVars, hist>>

\* updateLastSeen: set lastSeen of the key's entry if it still exists, unlock
updateLastSeen(w) ==
    /\ pc[w] = "updateLastSeen_cs"
    /\ limiters' = IF req[w].key \in DOMAIN limiters
                     THEN [limiters EXCEPT ![req[w].key].lastSeen = now]
                     ELSE limiters
    /\ Unlock(w)
    /\ pc' = [pc EXCEPT ![w] = "next"]
    /\ UNCHANGED <<now, heap, req, lim, resp, sweepPc, cutoff, tickPending, stopped,
                   closed, statsPc, tokenVars, ownerVars, hist>>

\* RateLimit: next.ServeHTTP - RequireAuth on a protected route (auth is the
\* request's Authorization header), then the handler: AuthHandler.Me or
\* AuthHandler.Logout
Serve(w, auth) ==
    /\ pc[w] = "next"
    /\ LET a == RequireAuth(auth, now, now) IN
        IF req[w].protected /\ ~a.next THEN
            resp' = [resp EXCEPT ![w].status = a.status, ![w].msg = a.msg,
                                 ![w].by = "RequireAuth", ![w].auth = TRUE,
                                 ![w].logged = a.status]
        ELSE IF req[w].protected THEN
            resp' = [resp EXCEPT ![w].status = StatusOK, ![w].msg = "",
                                 ![w].by = "Me", ![w].auth = TRUE,
                                 ![w].handler = TRUE,
                                 ![w].user_id = a.user_id, ![w].role = a.role,
                                 ![w].logged = StatusOK]
        ELSE
            resp' = [resp EXCEPT ![w].status = StatusOK,
                                 ![w].msg = "Logged out successfully",
                                 ![w].by = "Logout", ![w].handler = TRUE,
                                 ![w].logged = StatusOK]
    /\ pc' = [pc EXCEPT ![w] = "done"]
    /\ req' = [req EXCEPT ![w] = NoReq]
    /\ UNCHANGED <<now, limiters, heap, mu, lim, sweepPc, cutoff, tickPending,
                   stopped, closed, statsPc, tokenVars, ownerVars, hist>>

\* Recovery's deferred function after recover(): response.Error(w, 500,
\* "Internal server error") on a writer whose status line was already
\* written with status wrote (0: nothing written yet).  The server ignores a
\* second WriteHeader, Logger's responseWriter records every WriteHeader.
Recovery(wrote) ==
    [status |-> IF wrote = 0 THEN 500 ELSE wrote,
     msg |-> "Internal server error",
     logged |-> 500]

\* a stage inside Recovery (RateLimit, getLimiter, updateLastSeen, or the
\* entry of RequireAuth or of the handler) panics before anything was
\* written: deferred unlocks run, Recovery answers, Logger makes its record
Panic(w) ==
    /\ pc[w] \in {"getLimiter", "getLimiter_cs", "Allow", "updateLastSeen",
                  "updateLastSeen_cs", "next"}
    /\ resp' = [resp EXCEPT ![w].status = Recovery(0).status,
                            ![w].msg = Recovery(0).msg,
                            ![w].by = "Recovery",
                            ![w].logged = Recovery(0).logged,
                            ![w].panicked = TRUE]
    /\ Unlock(w)
    /\ pc' = [pc EXCEPT ![w] = "done"]
    /\ req' = [req EXCEPT ![w] = NoReq]
    /\ lim' = [lim EXCEPT ![w] = 0]
    /\ heap' = Collect(heap, Live(limiters, lim', pc'))
    /\ UNCHANGED <<now, limiters, sweepPc, cutoff, tickPending, stopped, closed,
                   statsPc, tokenVars, ownerVars, hist>>

\* RequireAuth or the handler panics inside response.Error or
\* response.Success, after w.WriteHeader and before the body is encoded
PanicAfterWrite(w, auth) ==
    /\ pc[w] = "next"
    /\ LET a == RequireAuth(auth, now, now)
           refused == req[w].protected /\ ~a.next
           wrote == IF refused THEN a.status ELSE StatusOK
       IN  resp' = [resp EXCEPT ![w].status = Recovery(wrote).status,
                                ![w].msg = Recovery(wrote).msg,
                                ![w].by = IF refused THEN "RequireAuth"
                                          ELSE IF req[w].protected THEN "Me"
                                          ELSE "Logout",
                                ![w].auth = req[w].protected,
                                ![w].handler = ~refused,
                                ![w].user_id = IF req[w].protected /\ ~refused
                                               THEN a.user_id ELSE "",
                                ![w].role = IF req[w].protected /\ ~refused
                                            THEN a.role ELSE "",
                                ![w].logged = Recovery(wrote).logged,
                                ![w].panicked = TRUE]
    /\ pc' = [pc EXCEPT ![w] = "done"]
    /\ req' = [req EXCEPT ![w] = NoReq]
    /\ UNCHANGED <<now, limiters, heap, mu, lim, sweepPc, cutoff, tickPending,
                   stopped, closed, statsPc, tokenVars, ownerVars, hist>>

\* startCleanup's goroutine: case <-rlm.cleanupTick.C
Select_Tick ==
    /\ sweepPc = "select"
    /\ tickPending
    /\ tickPending' = FALSE
    /\ sweepPc' = "cleanup"
    /\ UNCHANGED <<now, limiters, heap, mu, pc, req, lim, resp, cutoff, stopped, closed,
                   statsPc, tokenVars, ownerVars, hist>>

Select_Done_Ignored ==
    /\ sweepPc = "select"
    /\ closed
    /\ UNCHANGED vars

\* startCleanup's goroutine: case <-rlm.done: return
Select_Done ==
    /\ sweepPc = "select"
    /\ closed
    /\ sweepPc' = "exited"
    /\ UNCHANGED <<now, limiters, heap, mu, pc, req, lim, resp, cutoff, tickPending,
                   stopped, closed, statsPc, tokenVars, ownerVars, hist>>

\* cleanup: rlm.mu.Lock()
cleanup_Lock ==
    /\ sweepPc = "cleanup"
    /\ Lock("sweeper")
    /\ sweepPc' = "cleanup_cs"
    /\ UNCHANGED <<now, limiters, heap, pc, req, lim, resp, cutoff, tickPending, stopped,
                   closed, statsPc, tokenVars, ownerVars, hist>>

\* cleanup: compute the cutoff and delete every entry last seen before it
cleanup ==
    /\ sweepPc = "cleanup_cs"
    /\ cutoff' = now - CleanupInterval * defaultCleanupMultiplier
    /\ limiters' = Restrict(limiters, {k \in DOMAIN limiters : ~Stale(limiters[k], cutoff')})
    /\ heap' = Collect(heap, Live(limiters', lim, pc))
    /\ sweepPc' = "cleanup_unlock"
    /\ UNCHANGED <<now, mu, pc, req, lim, resp, tickPending, stopped, closed,
                   statsPc, tokenVars, ownerVars, hist>>

\* cleanup: the deferred rlm.mu.Unlock(), back to the select
cleanup_Unlock ==
    /\ sweepPc = "cleanup_unlock"
    /\ Unlock("sweeper")
    /\ cutoff' = 0
    /\ sweepPc' = "select"
    /\ UNCHANGED <<now, limiters, heap, pc, req, lim, resp, tickPending, stopped, closed,
                   statsPc, tokenVars, ownerVars, hist>>

\* Close: stop the ticker and close rlm.done
Close ==
    /\ ~closed
    /\ stopped' = TRUE
    /\ closed' = TRUE
    /\ UNCHANGED <<now, limiters, heap, mu, pc, req, lim, resp, sweepPc, cutoff,
                   tickPending, statsPc, tokenVars, ownerVars, hist>>

\* GetStats: rlm.mu.RLock()
GetStats_RLock ==
    /\ statsPc = "idle"
    /\ RLock("stats")
    /\ statsPc' = "GetStats_cs"
    /\ UNCHANGED <<now, limiters, heap, pc, req, lim, resp, sweepPc, cutoff, tickPending,
                   stopped, closed, tokenVars, ownerVars, hist>>

\* GetStats: read len(rlm.limiters), then the deferred RUnlock
GetStats ==
    /\ statsPc = "GetStats_cs"
    /\ Cardinality(DOMAIN limiters) <= Cardinality(ClientKeys)
    /\ RUnlock("stats")
    /\ statsPc' = "idle"
    /\ UNCHANGED <<now, limiters, heap, pc, req, lim, resp, sweepPc, cutoff, tickPending,
                   stopped, closed, tokenVars, ownerVars, hist>>

\* The clock advances one tick; the ticker made by time.NewTicker(CleanupInterval)
\* at time 0 fires at every multiple of the interval unless it was stopped, and
\* its channel buffers a single tick
AdvanceTime ==
    /\ now < MaxTime
    /\ now' = now + 1
    /\ tickPending' = IF ~stopped /\ (now + 1) % CleanupInterval = 0 THEN TRUE ELSE tickPending
    /\ heap' = [i \in DOMAIN heap |->
                  IF heap[i] = Dead THEN Dead
                  ELSE [heap[i] EXCEPT !.fresh = FALSE, !.calls = 0,
                                       !.idle = Min(@ + 1, TicksPerToken)]]
    /\ UNCHANGED <<limiters, mu, pc, req, lim, resp, sweepPc, cutoff, stopped,
                   closed, statsPc, tokenVars, ownerVars, hist>>

\* NewRateLimitMiddleware: empty map, ticker started, sweep goroutine at its select
Init ==
    /\ now = 0
    /\ limiters = << >>
    /\ heap = << >>
    /\ mu = [w |-> NoOne, r |-> {}]
    /\ pc = [w \in Workers |-> "idle"]
    /\ req = [w \in Workers |-> NoReq]
    /\ lim = [w \in Workers |-> 0]
    /\ resp = [w \in Workers |-> NoResp]
    /\ sweepPc = "select"
    /\ cutoff = 0
    /\ tickPending = FALSE
    /\ stopped = FALSE
    /\ closed = FALSE
    /\ statsPc = "idle"
    /\ issued = {}
    /\ vres = None
    /\ aresp = None
    /\ rres = None
    /\ challenges = {}
    /\ vo = None
    /\ cres = [w \in Workers |-> None]
    /\ kres = None
    /\ hist = [k \in ClientKeys |-> NoHistory]

\* Two request workers on one client key, the sweep goroutine, a caller of
\* GetStats, a caller of Close and the clock
Next ==
    \/ \E w \in Workers, method \in Methods, path \in Paths, key \in OneKey :
          StartRequest(w, method, path, key)
    \/ \E w \in Workers : getLimiter_Lock(w)
    \/ \E w \in Workers : getLimiter(w)
    \/ \E w \in Workers : Allow(w) /\ UNCHANGED hist
    \/ \E w \in Workers : updateLastSeen_Lock(w)
    \/ \E w \in Workers : updateLastSeen(w)
    \/ \E w \in Workers, auth \in AuthHeaders : Serve(w, auth)
    \/ Select_Tick
    \/ Select_Done
    \/ cleanup_Lock
    \/ cleanup
    \/ cleanup_Unlock
    \/ Close
    \/ GetStats_RLock
    \/ GetStats
    \/ AdvanceTime

Spec == Init /\ [][Next]_vars

\* One request worker serving requests of two client keys, the sweep
\* goroutine and the clock
SweepNext ==
    \/ \E w \in OneWorker, method \in Methods, path \in Paths, key \in ClientKeys :
          StartRequest(w, method, path, key)
    \/ \E w \in OneWorker : getLimiter_Lock(w)
    \/ \E w \in OneWorker : getLimiter(w)
    \/ \E w \in OneWorker : Allow(w) /\ UNCHANGED hist
    \/ \E w \in OneWorker : updateLastSeen_Lock(w)
    \/ \E w \in OneWorker : updateLastSeen(w)
    \/ \E w \in OneWorker, auth \in AuthHeaders : Serve(w, auth)
    \/ Select_Tick
    \/ cleanup_Lock
    \/ cleanup
    \/ cleanup_Unlock
    \/ AdvanceTime

SweepSpec == Init /\ [][SweepNext]_vars

\* One request worker, the sweep goroutine, GetStats, Close and the clock
LiveNext ==
    \/ \E w \in OneWorker, method \in Methods, path \in Paths, key \in OneKey :
          StartRequest(w, method, path, key)
    \/ \E w \in OneWorker : getLimiter_Lock(w)
    \/ \E w \in OneWorker : getLimiter(w)
    \/ \E w \in OneWorker : Allow(w) /\ UNCHANGED hist
    \/ \E w \in OneWorker : updateLastSeen_Lock(w)
    \/ \E w \in OneWorker : updateLastSeen(w)
    \/ \E w \in OneWorker, auth \in AuthHeaders : Serve(w, auth)
    \/ Select_Tick
    \/ Select_Done
    \/ cleanup_Lock
    \/ cleanup
    \/ cleanup_Unlock
    \/ Close
    \/ GetStats_RLock
    \/ GetStats
    \/ AdvanceTime

\* Two request workers whose stages may panic, the sweep goroutine and the
\* clock
PanicNext ==
    \/ \E w \in Workers, method \in Methods, path \in Paths, key \in OneKey :
          StartRequest(w, method, path, key)
    \/ \E w \in Workers : getLimiter_Lock(w)
    \/ \E w \in Workers : getLimiter(w)
    \/ \E w \in Workers : Allow(w) /\ UNCHANGED hist
    \/ \E w \in Workers : updateLastSeen_Lock(w)
    \/ \E w \in Workers : updateLastSeen(w)
    \/ \E w \in Workers, auth \in AuthHeaders : Serve(w, auth)
    \/ \E w \in Workers : Panic(w)
    \/ \E w \in Workers, auth \in AuthHeaders : PanicAfterWrite(w, auth)
    \/ Select_Tick
    \/ cleanup_Lock
    \/ cleanup
    \/ cleanup_Unlock
    \/ AdvanceTime

PanicSpec == Init /\ [][PanicNext]_vars

\* One request worker on one client key, the sweep goroutine and the clock,
\* with the history of the key kept at every Allow call
EvictNext ==
    \/ \E w \in OneWorker, method \in Methods, path \in Paths, key \in OneKey :
          StartRequest(w, method, path, key)
    \/ \E w \in OneWorker : getLimiter_Lock(w)
    \/ \E w \in OneWorker : getLimiter(w)
    \/ \E w \in OneWorker :
          /\ Allow(w)
          /\ hist' = [hist EXCEPT ![req[w].key] =
                        Traced(hist[req[w].key], heap[lim[w]], lim[w], now)]
    \/ \E w \in OneWorker : updateLastSeen_Lock(w)
    \/ \E w \in OneWorker : updateLastSeen(w)
    \/ \E w \in OneWorker, auth \in AuthHeaders : Serve(w, auth)
    \/ Select_Tick
    \/ cleanup_Lock
    \/ cleanup
    \/ cleanup_Unlock
    \/ AdvanceTime

EvictSpec == Init /\ [][EvictNext]_vars

\* Scheduling: a goroutine that holds the mutex runs on to its unlock; the
\* mutex is handed to a waiting sweep goroutine eventually (sync.Mutex
\* starvation mode); a select with a ready case takes one.  Nothing is
\* assumed about requests making progress outside their critical sections.
LiveSpec ==
    /\ Init /\ [][LiveNext]_vars
    /\ \A w \in OneWorker : WF_vars(getLimiter(w)) /\ WF_vars(updateLastSeen(w))
    /\ WF_vars(GetStats)
    /\ WF_vars(Select_Tick)
    /\ WF_vars(Select_Done)
    /\ SF_vars(cleanup_Lock)
    /\ WF_vars(cleanup)
    /\ WF_vars(cleanup_Unlock)

----------------------------------------------------------------------------
(* The token service on its own: logins, validations and the clock *)

Algs == {"HS256", "HS384", "RS256", "none", "XX"}
Issuers == {Issuer, "evil-issuer"}
ExpValues == {NoClaim, TicksPerSecond}

\* the MACs a token can carry: made with the secret over this very token,
\* made with another key, or made with the secret over other content (the
\* token was altered after signing)
Sigs == { [key |-> SecretKey, intact |-> TRUE],
          [key |-> "other-key", intact |-> TRUE],
          [key |-> SecretKey, intact |-> FALSE] }

\* a token string that does not parse into three decodable segments
Malformed == [wf |-> FALSE, alg |-> "", claims |-> NoClaims,
              sig |-> [key |-> "", intact |-> FALSE]]

\* tokens made outside GenerateToken
ForeignTokens ==
    { [wf |-> TRUE, alg |-> a,
       claims |-> [user_id |-> "u2", role |-> "admin", iss |-> i, sub |-> "u2",
                   iat |-> NoClaim, exp |-> e, nbf |-> NoClaim],
       sig |-> g] : a \in Algs, i \in Issuers, e \in ExpValues, g \in Sigs }
    \cup {Malformed}

Tokens == ForeignTokens \cup {i.tok : i \in issued}

\* the clock readings of one call: now, then a second reading a little later
Later == {t \in now..(now + 2) : t <= MaxTime}

\* AuthHandler.Login calls GenerateToken for an identity
T_GenerateToken(userID, role) ==
    /\ Cardinality(issued) < MaxIssued
    /\ issued' = issued \cup {[tok |-> GenerateToken(userID, role, now), at |-> now,
                               id |-> userID, role |-> role]}
    /\ UNCHANGED <<now, vres, aresp, limiterVars, ownerVars, hist>>

\* a call of validateToken
T_validateToken(tok, t2) ==
    /\ vres' = [tok |-> tok, t1 |-> now, t2 |-> t2, res |-> validateToken(tok, now, t2)]
    /\ aresp' = None
    /\ now' = t2
    /\ UNCHANGED <<issued, limiterVars, ownerVars, hist>>

\* a request to a protected route reaches RequireAuth with header h
T_RequireAuth(h, t2) ==
    /\ aresp' = [h |-> h, t1 |-> now, t2 |-> t2, res |-> RequireAuth(h, now, t2)]
    /\ vres' = None
    /\ now' = t2
    /\ UNCHANGED <<issued, limiterVars, ownerVars, hist>>

T_AdvanceTime ==
    /\ now < MaxTime
    /\ now' = now + 1
    /\ UNCHANGED <<issued, vres, aresp, limiterVars, ownerVars, hist>>

TokenNext ==
    \/ \E l \in Logins : T_GenerateToken(l[1], l[2])
    \/ \E tok \in Tokens, t2 \in Later : T_validateToken(tok, t2)
    \/ \E h \in {NoHeader, BasicHeader} \cup {Bearer(tok) : tok \in Tokens}, t2 \in Later :
          T_RequireAuth(h, t2)
    \/ T_AdvanceTime

TokenSpec == Init /\ [][TokenNext]_vars

----------------------------------------------------------------------------
(* Wallet ownership verification: internal/usecase/wallet/verify_ownership.go *)
(* and its HTTP handlers in handler/account_handler.go                        *)

\* addresses: two that keypair.ParseAddress accepts, one of 56 characters
\* starting with G whose checksum is wrong, one of another length
ValidKeys == {"GALICE", "GBOB"}
FormattedKeys == ValidKeys \cup {"GBADSUM"}
PublicKeys == FormattedKeys \cup {"short"}

\* further strings a caller may send as an address: the empty string, a
\* seed (56 characters starting with S), strings starting with G of 55 and
\* of 57 characters, and 56 characters starting with G one of which is not
\* of the base32 alphabet
KeyStrings == PublicKeys \cup {"", "SSEED", "G55", "G57", "G!SYM"}

stellarAddressLength == 56

\* len(s) of the strings above
StrLen(s) ==
    CASE s = "" -> 0
      [] s = "short" -> 5
      [] s = "G55" -> stellarAddressLength - 1
      [] s = "G57" -> stellarAddressLength + 1
      [] OTHER -> stellarAddressLength

\* s[0]; the index expression panics on the empty string
FirstByte(s) ==
    CASE s = "" -> [panic |-> TRUE, byte |-> ""]
      [] s = "short" -> [panic |-> FALSE, byte |-> "s"]
      [] s = "SSEED" -> [panic |-> FALSE, byte |-> "S"]
      [] OTHER -> [panic |-> FALSE, byte |-> "G"]

\* strings.HasPrefix(s, prefix) for a prefix of one byte
HasPrefix(s, prefix) == StrLen(s) >= 1 /\ FirstByte(s).byte = prefix

\* isBase32: every character of s is of base32Charset
isBase32(s) == s \notin {"short", "G!SYM"}

\* keypair.ParseAddress(s) returns no error: base32, version byte of an
\* account and checksum
ParseAddress(s) == s \in ValidKeys

isValidStellarPublicKey_PrefixOnly(publicKey) ==
    IF FirstByte(publicKey).byte # "G" THEN FALSE
    ELSE publicKey \notin {"GBADSUM", "G!SYM"}

\* VerifyOwnershipUseCase.isValidStellarPublicKey: length, prefix and
\* keypair.ParseAddress
isValidStellarPublicKey(publicKey) ==
    IF StrLen(publicKey) # 56 \/ FirstByte(publicKey).byte # "G" THEN FALSE
    ELSE ParseAddress(publicKey)

\* AccountHandler.isValidStellarPublicKey: length and prefix only
Handler_isValidStellarPublicKey(publicKey) ==
    StrLen(publicKey) = 56 /\ FirstByte(publicKey).byte = "G"

\* whether the evaluation of the two functions above panics: Go evaluates
\* publicKey[0] only when the length test before it lets it
isValidStellarPublicKey_Panics(publicKey) ==
    ~(StrLen(publicKey) # 56) /\ FirstByte(publicKey).panic
Handler_isValidStellarPublicKey_Panics(publicKey) ==
    StrLen(publicKey) = 56 /\ FirstByte(publicKey).panic

\* middleware isValidStellarKey (request validation): length, prefix and
\* base32 alphabet
isValidStellarKey(key, prefix) ==
    IF StrLen(key) # stellarAddressLength \/ ~HasPrefix(key, prefix) THEN FALSE
    ELSE isBase32(key)

Domain == "quasarflow.example"     \* uc.domain

\* a message string that is not a challenge of this service
Text(s) == [text |-> s]

\* the challenge string "timestamp.nonce.domain.public_key"
Challenge(publicKey, t) ==
    [timestamp |-> t \div TicksPerSecond, nonce |-> t, domain |-> Domain,
     public_key |-> publicKey]

\* VerifyOwnershipUseCase.GenerateChallenge
GenerateChallenge(publicKey, t) ==
    IF ~isValidStellarPublicKey(publicKey)
        THEN [Challenge |-> Text(""), Message |-> "Invalid Stellar public key format",
              PublicKey |-> publicKey]
    ELSE [Challenge |-> Challenge(publicKey, t),
          Message |-> "Sign this challenge with your private key to verify ownership",
          PublicKey |-> publicKey]

\* signature strings: b64 says whether base64.StdEncoding decodes the
\* string, len the length of the decoded bytes, signer and msg the key and
\* the message bytes the ed25519 signature was made with
Sign(publicKey, message) ==
    [b64 |-> TRUE, len |-> 64, signer |-> publicKey, msg |-> message]
Undecodable == [b64 |-> FALSE, len |-> 0, signer |-> "", msg |-> Text("")]
ShortSig == [b64 |-> TRUE, len |-> 3, signer |-> "", msg |-> Text("")]
EmptySig == [b64 |-> TRUE, len |-> 0, signer |-> "", msg |-> Text("")]

\* keypair.FromAddress.Verify: nil exactly for a 64-byte signature made by
\* the key over these message bytes
Verify(publicKey, messageBytes, sigBytes) ==
    sigBytes.len = 64 /\ sigBytes.signer = publicKey /\ sigBytes.msg = messageBytes

verifySignatureWithSDK_DecodeErrorIsInvalid(publicKey, message, signature) ==
    IF ~isValidStellarPublicKey(publicKey) THEN [valid |-> FALSE, err |-> TRUE]
    ELSE [valid |-> signature.b64 /\ Verify(publicKey, message, signature), err |-> FALSE]

\* VerifyOwnershipUseCase.verifySignatureWithSDK: (bool, error)
verifySignatureWithSDK(publicKey, message, signature) ==
    IF ~isValidStellarPublicKey(publicKey) THEN [valid |-> FALSE, err |-> TRUE]
    ELSE IF ~signature.b64 THEN [valid |-> FALSE, err |-> TRUE]
    ELSE [valid |-> Verify(publicKey, message, signature), err |-> FALSE]

\* pkg/errors/error.go
NewInternalError(message) ==
    [Type |-> "INTERNAL_ERROR", Message |-> message, StatusCode |-> 500]
NewBlockchainError(message) ==
    [Type |-> "BLOCKCHAIN_ERROR", Message |-> message, StatusCode |-> 502]

\* what a use case returns: (*VerifyOwnershipOutput, error)
Output(isOwner, message) ==
    [out |-> [is_owner |-> isOwner, message |-> message], err |-> None]
Failure(appErr) == [out |-> None, err |-> appErr]

\* VerifyOwnershipUseCase.Execute
Execute(input) ==
    IF ~isValidStellarPublicKey(input.public_key)
        THEN Output(FALSE, "Invalid Stellar public key format")
    ELSE IF verifySignatureWithSDK(input.public_key, input.message, input.signature).err
        THEN Failure(NewInternalError("Failed to verify signature"))
    ELSE IF ~verifySignatureWithSDK(input.public_key, input.message, input.signature).valid
        THEN Output(FALSE, "Invalid signature or message")
    ELSE Output(TRUE, "Ownership verified successfully")

\* replies of the Horizon server to TransactionDetail and AccountDetail: an
\* error (unknown hash or account, or the server cannot be reached) or the
\* resource
HorizonErrors == {"404 Not Found", "connection refused"}
\* a *time.Time: nil, or a pointer to the time at
Nil == [nil |-> TRUE, at |-> 0]
At(t) == [nil |-> FALSE, at |-> t]
HorizonFailure(e) ==
    [err |-> e, Account |-> "", LedgerCloseTime |-> 0, LastModifiedTime |-> Nil]
HorizonTransaction(account, closeTime) ==
    [err |-> "", Account |-> account, LedgerCloseTime |-> closeTime,
     LastModifiedTime |-> Nil]
HorizonAccount(lastModified) ==
    [err |-> "", Account |-> "", LedgerCloseTime |-> 0,
     LastModifiedTime |-> lastModified]

\* the zero time.Time, further in the past than any window of the model
ZeroTime == 0 - (AcctMaxAge + TxMaxAge + MaxTime + 1)

\* stellar.Client.GetTransaction
GetTransaction(reply) ==
    IF reply.err # "" THEN [err |-> TRUE, SourceAccount |-> "", LedgerCloseTime |-> 0]
    ELSE [err |-> FALSE, SourceAccount |-> reply.Account,
          LedgerCloseTime |-> reply.LedgerCloseTime]

\* stellar.Client.GetAccount
GetAccount(reply) ==
    IF reply.err # "" THEN [err |-> TRUE, LastModifiedTime |-> ZeroTime]
    ELSE [err |-> FALSE,
          LastModifiedTime |-> IF reply.LastModifiedTime.nil THEN ZeroTime
                               ELSE reply.LastModifiedTime.at]

VerifyOwnershipByTransaction_ErrorIsDenial(publicKey, reply, t) ==
    IF ~isValidStellarPublicKey(publicKey)
        THEN Output(FALSE, "Invalid Stellar public key format")
    ELSE IF GetTransaction(reply).err
        THEN Output(FALSE, "Failed to fetch transaction")
    ELSE IF GetTransaction(reply).SourceAccount # publicKey
        THEN Output(FALSE, "Transaction was not signed by the specified wallet")
    ELSE IF t - GetTransaction(reply).LedgerCloseTime > TxMaxAge
        THEN Output(FALSE, "Transaction is too old for ownership verification")
    ELSE Output(TRUE, "Ownership verified via transaction")

\* VerifyOwnershipUseCase.VerifyOwnershipByTransaction, reply being what
\* Horizon answers for the transaction hash and t the time of time.Since
VerifyOwnershipByTransaction(publicKey, reply, t) ==
    IF ~isValidStellarPublicKey(publicKey)
        THEN Output(FALSE, "Invalid Stellar public key format")
    ELSE IF GetTransaction(reply).err
        THEN Failure(NewBlockchainError("Failed to fetch transaction"))
    ELSE IF GetTransaction(reply).SourceAccount # publicKey
        THEN Output(FALSE, "Transaction was not signed by the specified wallet")
    ELSE IF t - GetTransaction(reply).LedgerCloseTime > TxMaxAge
        THEN Output(FALSE, "Transaction is too old for ownership verification")
    ELSE Output(TRUE, "Ownership verified via transaction")

VerifyOwnershipByAccount_WindowInclusive(publicKey, reply, t) ==
    IF ~isValidStellarPublicKey(publicKey)
        THEN Output(FALSE, "Invalid Stellar public key format")
    ELSE IF GetAccount(reply).err
        THEN Output(FALSE, "Account not found on Stellar network")
    ELSE IF ~(t - GetAccount(reply).LastModifiedTime <= AcctMaxAge)
        THEN Output(FALSE, "Account has no recent activity")
    ELSE Output(TRUE, "Account exists and has recent activity")

\* VerifyOwnershipUseCase.VerifyOwnershipByAccount, reply being what Horizon
\* answers for the account and t the time of time.Since
VerifyOwnershipByAccount(publicKey, reply, t) ==
    IF ~isValidStellarPublicKey(publicKey)
        THEN Output(FALSE, "Invalid Stellar public key format")
    ELSE IF GetAccount(reply).err
        THEN Output(FALSE, "Account not found on Stellar network")
    ELSE IF ~(t - GetAccount(reply).LastModifiedTime < AcctMaxAge)
        THEN Output(FALSE, "Account has no recent activity")
    ELSE Output(TRUE, "Account exists and has recent activity")

\* response.Error and response.Success as the handlers use them
HttpError(statusCode, message) ==
    [status |-> statusCode, success |-> FALSE, data |-> None, error |-> message]
HttpSuccess(statusCode, data) ==
    [status |-> statusCode, success |-> TRUE, data |-> data, error |-> ""]

\* AccountHandler.handleUseCaseError for an *AppError
handleUseCaseError(appErr) == HttpError(appErr.StatusCode, appErr.Message)

\* the tail shared by the three verification handlers: the use case's error
\* through handleUseCaseError, else 200 for an owner and 401 otherwise
Respond(result) ==
    IF result.err # None THEN handleUseCaseError(result.err)
    ELSE HttpSuccess(IF result.out.is_owner THEN 200 ELSE 401, result.out)

\* a request body that is not JSON
BadBody == [bad |-> TRUE]

\* AccountHandler.VerifyOwnership: POST .../{public_key}/verify-ownership
Handler_VerifyOwnership(publicKey, body) ==
    IF body = BadBody THEN HttpError(400, "Invalid request body")
    ELSE IF body.signature = EmptySig \/ body.message = Text("")
        THEN HttpError(400, "signature and message are required")
    ELSE Respond(Execute([public_key |-> publicKey, signature |-> body.signature,
                          message |-> body.message]))

\* AccountHandler.VerifyOwnershipByTransaction: POST .../verify-transaction
Handler_VerifyOwnershipByTransaction(publicKey, body, reply, t) ==
    IF body = BadBody THEN HttpError(400, "Invalid request body")
    ELSE IF body.transaction_hash = ""
        THEN HttpError(400, "transaction_hash is required")
    ELSE Respond(VerifyOwnershipByTransaction(publicKey, reply, t))

\* AccountHandler.VerifyOwnershipByAccount: GET .../verify-account
Handler_VerifyOwnershipByAccount(publicKey, reply, t) ==
    IF ~Handler_isValidStellarPublicKey(publicKey)
        THEN HttpError(400, "Invalid Stellar public key format")
    ELSE Respond(VerifyOwnershipByAccount(publicKey, reply, t))

\* strings.Count(s, "."): the addresses of the model hold no '.', the domain
\* (cfg.APIBaseURL, here a host name of two labels) holds one
Dots(s) == IF s = Domain THEN 1 ELSE 0

\* the number of '.' in the string fmt.Sprintf("%d.%s.%s.%s", ...) makes of
\* a challenge: the three of the format and those of its fields (the two
\* numbers hold none)
Separators(challenge) ==
    IF challenge = Text("") THEN 0
    ELSE 3 + Dots(challenge.domain) + Dots(challenge.public_key)

\* AccountHandler.GetChallenge: GET .../{public_key}/challenge
Handler_GetChallenge(publicKey, t) ==
    IF ~Handler_isValidStellarPublicKey(publicKey)
        THEN HttpError(400, "Invalid Stellar public key format")
    ELSE HttpSuccess(200, GenerateChallenge(publicKey, t))

(* Ownership verification on its own: challenges, the three strategies and *)
(* the clock                                                               *)

\* the challenge a client may sign whether or not the service issued it
C0 == Challenge("GALICE", 0)

Signatures ==
    {EmptySig, Undecodable, ShortSig, Sign("GALICE", Text("hello")),
     Sign("GALICE", C0), Sign("GBOB", Text("hello"))}
Messages == {Text(""), Text("hello"), C0} \cup challenges
Bodies == {BadBody} \cup [signature : Signatures, message : Messages]

\* the requests of the replay experiment: a smaller choice of the same kinds
ReplayKeys == {"GALICE", "GBADSUM"}
ReplayBodies ==
    [signature : {Undecodable, Sign("GALICE", Text("hello")), Sign("GALICE", C0)},
     message : {Text("hello"), C0}]

TransactionBodies ==
    {BadBody, [transaction_hash |-> ""], [transaction_hash |-> "abc123"]}
CloseTimes == (0 - 1)..MaxTime
TransactionReplies ==
    {HorizonFailure(e) : e \in HorizonErrors} \cup
    {HorizonTransaction(a, c) : a \in ValidKeys, c \in CloseTimes}
AccountReplies ==
    {HorizonFailure(e) : e \in HorizonErrors} \cup
    {HorizonAccount(m) : m \in {Nil} \cup {At(t) : t \in 0..MaxTime}}

\* the call remembered from earlier in the run, if any
Mark(v) == IF v = None THEN None ELSE v.mark

\* AccountHandler.GetChallenge: GET .../{public_key}/challenge
A_GenerateChallenge(publicKey) ==
    /\ Cardinality(challenges) < MaxChallenges
    /\ Handler_isValidStellarPublicKey(publicKey)
    /\ GenerateChallenge(publicKey, now).Challenge # Text("")
    /\ challenges' = challenges \cup {GenerateChallenge(publicKey, now).Challenge}
    /\ UNCHANGED <<now, rres, vo, tokenVars, limiterVars, keyVars, hist>>

A_Execute_ChallengeStore(publicKey, body, remark) ==
    /\ LET input == [public_key |-> publicKey, signature |-> body.signature,
                     message |-> body.message]
           known == body.message \in challenges
           call == [strategy |-> "A", key |-> publicKey, body |-> body,
                    reply |-> None, t |-> now,
                    res |-> IF known THEN Execute(input)
                            ELSE Output(FALSE, "Invalid signature or message"),
                    http |-> IF known THEN Handler_VerifyOwnership(publicKey, body)
                             ELSE HttpError(401, "Invalid signature or message"),
                    issued |-> known]
       IN  vo' = [call |-> call,
                  mark |-> IF remark THEN call ELSE Mark(vo)]
    /\ UNCHANGED <<now, rres, challenges, tokenVars, limiterVars, keyVars, hist>>

\* a POST verify-ownership request: the handler, and the use case called
\* with the same input; remark says whether this call is the one to be
\* remembered
A_Execute(publicKey, body, remark) ==
    /\ LET call == [strategy |-> "A", key |-> publicKey, body |-> body,
                    reply |-> None, t |-> now,
                    res |-> IF body = BadBody THEN None
                            ELSE Execute([public_key |-> publicKey,
                                          signature |-> body.signature,
                                          message |-> body.message]),
                    http |-> Handler_VerifyOwnership(publicKey, body),
                    issued |-> body # BadBody /\ body.message \in challenges]
       IN  vo' = [call |-> call,
                  mark |-> IF remark THEN call ELSE Mark(vo)]
    /\ UNCHANGED <<now, rres, challenges, tokenVars, limiterVars, keyVars, hist>>

\* a POST verify-transaction request, Horizon answering reply
A_VerifyOwnershipByTransaction(publicKey, body, reply) ==
    /\ vo' = [call |-> [strategy |-> "B", key |-> publicKey, body |-> body,
                        reply |-> reply, t |-> now,
                        res |-> VerifyOwnershipByTransaction(publicKey, reply, now),
                        http |-> Handler_VerifyOwnershipByTransaction(publicKey, body,
                                                                      reply, now),
                        issued |-> FALSE],
              mark |-> Mark(vo)]
    /\ UNCHANGED <<now, rres, challenges, tokenVars, limiterVars, keyVars, hist>>

\* a GET verify-account request, Horizon answering reply
A_VerifyOwnershipByAccount(publicKey, reply) ==
    /\ vo' = [call |-> [strategy |-> "C", key |-> publicKey, body |-> None,
                        reply |-> reply, t |-> now,
                        res |-> VerifyOwnershipByAccount(publicKey, reply, now),
                        http |-> Handler_VerifyOwnershipByAccount(publicKey, reply, now),
                        issued |-> FALSE],
              mark |-> Mark(vo)]
    /\ UNCHANGED <<now, rres, challenges, tokenVars, limiterVars, keyVars, hist>>

OwnerNext ==
    \/ \E k \in PublicKeys : A_GenerateChallenge(k)
    \/ \E k \in FormattedKeys, body \in Bodies : A_Execute(k, body, FALSE)
    \/ \E k \in FormattedKeys, body \in TransactionBodies, reply \in TransactionReplies :
          A_VerifyOwnershipByTransaction(k, body, reply)
    \/ \E k \in PublicKeys, reply \in AccountReplies :
          A_VerifyOwnershipByAccount(k, reply)
    \/ T_AdvanceTime

OwnerSpec == Init /\ [][OwnerNext]_vars

\* the replay experiment: challenges are issued or not, verify-ownership
\* calls are made and repeated, one of them is remembered
ReplayNext ==
    \/ \E k \in ReplayKeys : A_GenerateChallenge(k)
    \/ \E k \in ReplayKeys, body \in ReplayBodies, remark \in BOOLEAN :
          A_Execute(k, body, remark)
    \/ T_AdvanceTime

ReplaySpec == Init /\ [][ReplayNext]_vars

\* a GET challenge request served by worker w: the {public_key} segment of
\* the route is never empty
A_GetChallenge(w, publicKey) ==
    /\ publicKey # ""
    /\ cres' = [cres EXCEPT ![w] = [key |-> publicKey, t |-> now,
                                    http |-> Handler_GetChallenge(publicKey, now)]]
    /\ UNCHANGED <<now, rres, challenges, vo, kres, tokenVars, limiterVars, hist>>

\* a string put to the three address validators
A_Validate(key) ==
    /\ kres' = [key |-> key,
                usecase |-> isValidStellarPublicKey(key),
                handler |-> Handler_isValidStellarPublicKey(key),
                panics |-> isValidStellarPublicKey_Panics(key)
                            \/ Handler_isValidStellarPublicKey_Panics(key),
                middleware |-> isValidStellarKey(key, "G")]
    /\ UNCHANGED <<now, rres, challenges, vo, cres, tokenVars, limiterVars, hist>>

\* challenge requests of two workers, address validation and the clock
ChallengeNext ==
    \/ \E w \in Workers, k \in KeyStrings : A_GetChallenge(w, k)
    \/ \E k \in KeyStrings : A_Validate(k)
    \/ T_AdvanceTime

ChallengeSpec == Init /\ [][ChallengeNext]_vars

----------------------------------------------------------------------------

(* Role gating on its own: logins, role-gated requests and the clock *)

RequiredRoles == {"user", "admin"}

\* the Bearer tokens presented to role-gated routes: the issued ones and
\* the HS256 tokens of the configured issuer made elsewhere
RoleTokens ==
    {i.tok : i \in issued} \cup
    {tok \in ForeignTokens : tok.wf /\ tok.alg = HMACMethod /\ tok.claims.iss = Issuer}

\* a request with header h to a route behind RequireAuth and
\* RequireRole(requiredRole)
T_RequireRole(h, requiredRole, t2) ==
    /\ LET a == RequireAuth(h, now, t2) IN
        rres' = [h |-> h, required |-> requiredRole, t1 |-> now, t2 |-> t2,
                 auth |-> a,
                 ctx |-> IF a.next THEN CtxRole(a.role) ELSE NoRole,
                 ran |-> a.next,
                 res |-> IF a.next THEN RequireRole(requiredRole, CtxRole(a.role))
                         ELSE a]
    /\ now' = t2
    /\ UNCHANGED <<issued, vres, aresp, challenges, vo, limiterVars, keyVars, hist>>

\* a request to a route behind RequireRole(requiredRole) alone: nothing put
\* a role into its context
T_RequireRoleNoAuth(requiredRole) ==
    /\ rres' = [h |-> NoHeader, required |-> requiredRole, t1 |-> now, t2 |-> now,
                auth |-> None, ctx |-> NoRole, ran |-> TRUE,
                res |-> RequireRole(requiredRole, NoRole)]
    /\ UNCHANGED <<now, issued, vres, aresp, challenges, vo, limiterVars, keyVars, hist>>

RoleNext ==
    \/ \E l \in Logins : T_GenerateToken(l[1], l[2])
    \/ \E h \in {NoHeader} \cup {Bearer(tok) : tok \in RoleTokens},
          r \in RequiredRoles, t2 \in Later : T_RequireRole(h, r, t2)
    \/ \E r \in RequiredRoles : T_RequireRoleNoAuth(r)
    \/ T_AdvanceTime

RoleSpec == Init /\ [][RoleNext]_vars

----------------------------------------------------------------------------
(* Properties *)

\* C1: on a limiter made at this instant the first BurstSize calls of Allow
\* are admitted and every further immediate call is rejected with 429; a call
\* that comes at least 1/R (TicksPerToken ticks) after the previous call on
\* the limiter is admitted.
C1_BurstThenRefill ==
    [][\A w \in Workers :
        (pc[w] = "Allow" /\ pc'[w] # "Allow") =>
            LET b == heap[lim[w]] IN
            /\ (b.fresh /\ b.calls < BurstSize) => resp'[w].admitted
            /\ (b.fresh /\ b.calls >= BurstSize) =>
                    /\ ~resp'[w].admitted
                    /\ pc'[w] = "done"
                    /\ resp'[w].status = 429
            /\ (b.idle >= TicksPerToken) => resp'[w].admitted]_vars

\* a request was rejected with 429, and a request that came after the wait
\* took the one token refilled into the emptied limiter
C1_Witness ==
    \E w \in Workers, v \in Workers, i \in DOMAIN heap :
        /\ resp[v].status = 429
        /\ pc[w] = "updateLastSeen" /\ resp[w].admitted
        /\ now >= TicksPerToken
        /\ heap[i].tokens = 0 /\ heap[i].last = now /\ ~heap[i].fresh

\* C2: when a pass of cleanup has scanned the map, no entry that is left was
\* last seen more than 2 x CleanupInterval before the time of the pass.
C2_SweepEvictsStale ==
    [][(sweepPc = "cleanup_cs" /\ sweepPc' = "cleanup_unlock") =>
        \A k \in DOMAIN limiters' : now - limiters'[k].lastSeen <= 2 * CleanupInterval]_vars

\* a pass has just evicted the entry of one key and kept the other key's
C2_Witness ==
    /\ sweepPc = "cleanup_unlock"
    /\ Cardinality(DOMAIN limiters) = 1
    /\ \E i \in DOMAIN heap : heap[i] = Dead
    /\ \E i \in DOMAIN heap : heap[i] # Dead

WriteSections ==
    {w \in Workers : pc[w] \in {"getLimiter_cs", "updateLastSeen_cs"}}
    \cup (IF sweepPc \in {"cleanup_cs", "cleanup_unlock"} THEN {"sweeper"} ELSE {})

ReadSections == IF statsPc = "GetStats_cs" THEN {"stats"} ELSE {}

\* C3: a thread that is about to read or write the map or a lastSeen holds
\* the mutex (writers exclusively, GetStats shared), so there is never more
\* than one thread in a writing section, and none in a reading section
\* while one writes.
C3_MutexDiscipline ==
    /\ \A t \in WriteSections : mu.w = t
    /\ \A t \in ReadSections : t \in mu.r
    /\ Cardinality(WriteSections) <= 1
    /\ WriteSections # {} => ReadSections = {}

\* a worker is inside getLimiter while the other worker and the sweep wait
\* for the mutex
C3_Witness ==
    \E w \in Workers, v \in Workers :
        /\ pc[w] = "getLimiter_cs"
        /\ pc[v] = "updateLastSeen"
        /\ sweepPc = "cleanup"

\* C4: the sweep goroutine does not end before Close; every tick delivered
\* before Close starts a pass and every pass comes back to the select; after
\* Close the goroutine ends, whatever the requests in flight do.
C4_SweepRunsUntilClose ==
    /\ [](sweepPc = "exited" => closed)
    /\ ((tickPending /\ ~closed) ~> (~tickPending \/ closed))
    /\ (sweepPc \in {"cleanup", "cleanup_cs", "cleanup_unlock"} ~> sweepPc = "select")
    /\ (closed ~> sweepPc = "exited")

\* the goroutine has ended after Close while a request is still in flight
C4_Witness ==
    /\ sweepPc = "exited" /\ closed
    /\ \E w \in OneWorker : pc[w] = "Allow"

\* C5: authentication and handlers run only for a request the limiter
\* admitted; a request the limiter turned down got one call of Allow, has
\* the 429 response with the fixed message, and is finished without having
\* reached authentication or a handler.
C5_RateLimitBeforeAuth ==
    \A w \in Workers :
        /\ (resp[w].auth \/ resp[w].handler) => (resp[w].admitted /\ resp[w].tries = 1)
        /\ (resp[w].tries >= 1 /\ ~resp[w].admitted) =>
                /\ pc[w] = "done"
                /\ resp[w].tries = 1
                /\ resp[w].status = 429
                /\ resp[w].msg = "Rate limit exceeded. Please try again later."
                /\ ~resp[w].auth /\ ~resp[w].handler

\* one request was turned down by the limiter, another went through
\* authentication to its handler
C5_Witness ==
    \E w \in Workers, v \in Workers :
        /\ resp[w].by = "RateLimit" /\ resp[w].status = 429
        /\ resp[v].by = "Me" /\ resp[v].auth /\ resp[v].handler

IssuedAndValidated(i) == vres # None /\ vres.tok = i.tok

\* C6: a token made by GenerateToken(id, role) and validated before its
\* expires_at is accepted, and the claims returned carry id as user id and
\* subject and role as role.
C6_TokenRoundTrip ==
    \A i \in issued :
        (IssuedAndValidated(i) /\ vres.t2 < i.tok.claims.exp) =>
            /\ vres.res.ok
            /\ vres.res.claims.user_id = i.id
            /\ vres.res.claims.sub = i.id
            /\ vres.res.claims.role = i.role

\* an issued token was validated before its expiry and accepted
C6_Witness ==
    \E i \in issued :
        /\ IssuedAndValidated(i)
        /\ vres.t2 < i.tok.claims.exp
        /\ vres.res.ok
        /\ vres.res.claims.user_id = i.id

\* C7: a token whose issuer claim is not the configured issuer is rejected,
\* whatever its signature and expiry.
C7_WrongIssuerRejected ==
    (vres # None /\ vres.tok.claims.iss # Issuer) => ~vres.res.ok

\* a token signed with the secret, not expired, with a foreign issuer was
\* rejected for its issuer
C7_Witness ==
    /\ vres # None
    /\ vres.tok.alg = "HS256"
    /\ vres.tok.sig = [key |-> SecretKey, intact |-> TRUE]
    /\ vres.tok.claims.iss = "evil-issuer"
    /\ vres.tok.claims.exp # NoClaim /\ vres.t2 < vres.tok.claims.exp
    /\ vres.res.err = {"errors.ErrInvalidTokenIssuer"}

ExpiredErrors == {"jwt.ErrTokenExpired", "errors.ErrTokenExpired"}

\* C8: a token issued at time t is rejected by every validation that ends
\* later than t + TokenDuration; and an issued token that validation rejects
\* as expired at the current time is rejected at every later time.
C8_ExpiredStaysRejected ==
    /\ [](\A i \in issued :
            (IssuedAndValidated(i) /\ vres.t2 > i.at + TokenDuration) => ~vres.res.ok)
    /\ [][\A i \in issued :
            (validateToken(i.tok, now, now).err \cap ExpiredErrors # {}) =>
                ~validateToken(i.tok, now', now').ok]_vars

\* an issued token was validated after t + TokenDuration and rejected as expired
C8_Witness ==
    \E i \in issued :
        /\ IssuedAndValidated(i)
        /\ vres.t1 > i.at + TokenDuration
        /\ ~vres.res.ok
        /\ "jwt.ErrTokenExpired" \in vres.res.err

OtherFailures ==
    {"jwt.ErrTokenSignatureInvalid", "errors.ErrInvalidTokenIssuer",
     "jwt.ErrTokenExpired", "errors.ErrTokenExpired"}

\* C9 as stated: a token whose header algorithm is not HS256 is rejected
\* without the secret being handed out, with an error that is none of the
\* signature, issuer and expiry failures.
C9_OnlyHS256 ==
    (vres # None /\ vres.tok.wf /\ vres.tok.alg # HMACMethod) =>
        /\ ~vres.res.ok
        /\ ~vres.res.keyed
        /\ vres.res.err \cap OtherFailures = {}

\* C9 amended: a token whose header algorithm is not of the HMAC family
\* (HS256, HS384, HS512) is rejected without the secret being handed out,
\* with an unverifiable-token error that is none of the signature, issuer
\* and expiry failures.
C9_NonHMACRejected ==
    (vres # None /\ vres.tok.wf /\ vres.tok.alg \notin SigningMethodHMAC) =>
        /\ ~vres.res.ok
        /\ ~vres.res.keyed
        /\ "jwt.ErrTokenUnverifiable" \in vres.res.err
        /\ vres.res.err \cap OtherFailures = {}

\* an RS256 token whose signature was made with the HMAC secret was turned
\* down by the key function
C9_Witness ==
    /\ vres # None
    /\ vres.tok.alg = "RS256"
    /\ vres.tok.sig = [key |-> SecretKey, intact |-> TRUE]
    /\ vres.tok.claims.iss = Issuer
    /\ ~vres.res.ok /\ ~vres.res.keyed
    /\ "Unexpected signing method" \in vres.res.err

\* C10: RequireAuth answers a missing header, a header without the Bearer
\* prefix and a token that fails validation each with 401 and a message of
\* its own, and does not call the next handler.
C10_ThreeRejections ==
    aresp # None =>
        /\ ~aresp.h.present =>
              /\ aresp.res.status = 401 /\ ~aresp.res.next
              /\ aresp.res.msg = "Authorization header is required"
        /\ (aresp.h.present /\ ~aresp.h.bearer) =>
              /\ aresp.res.status = 401 /\ ~aresp.res.next
              /\ aresp.res.msg = "Invalid authorization header format"
        /\ (aresp.h.bearer /\ ~validateToken(aresp.h.tok, aresp.t1, aresp.t2).ok) =>
              /\ aresp.res.status = 401 /\ ~aresp.res.next
              /\ aresp.res.msg = "Invalid or expired token"

\* a Bearer token that fails validation got the 401 of its category
C10_Witness ==
    /\ aresp # None
    /\ aresp.h.bearer
    /\ aresp.h.tok.wf
    /\ aresp.res.status = 401
    /\ aresp.res.msg = "Invalid or expired token"

\* C11: the response of RequireAuth to a Bearer token that fails validation
\* is the same as its response to any other Bearer token that fails
\* validation, whatever the two causes are.
C11_FailureIndistinguishable ==
    (aresp # None /\ aresp.h.bearer
        /\ ~validateToken(aresp.h.tok, aresp.t1, aresp.t2).ok) =>
        \A tok \in Tokens : \A t \in now..MaxTime :
            ~validateToken(tok, now, t).ok =>
                RequireAuth(Bearer(tok), now, t) = aresp.res

\* a correctly signed token of the right issuer was refused for its expiry
C11_Witness ==
    /\ aresp # None /\ aresp.h.bearer
    /\ validateToken(aresp.h.tok, aresp.t1, aresp.t2).err \cap ExpiredErrors # {}
    /\ aresp.h.tok.claims.iss = Issuer
    /\ aresp.res.status = 401

\* C12 (as claimed): the handler of a protected route runs only for a
\* request whose Bearer token validateToken accepted, with the user id and
\* role of that token as identity; every other request to a protected route
\* is answered 401.
C12_ProtectedNeedsToken ==
    [][\A w \in Workers :
        /\ \A auth \in AuthHeaders :
              (req[w].protected /\ Serve(w, auth)) =>
                  /\ resp'[w].handler <=>
                        (auth.bearer /\ validateToken(auth.tok, now, now).ok)
                  /\ resp'[w].handler =>
                        /\ resp'[w].user_id = auth.tok.claims.user_id
                        /\ resp'[w].role = auth.tok.claims.role
        /\ (req[w].protected /\ pc[w] # "done" /\ pc'[w] = "done"
                /\ ~resp'[w].handler) => resp'[w].status = 401
      ]_vars

\* C12 (amended): the same, but the 401 is the answer to the other requests
\* that the rate limiter admitted; a request to a protected route that the
\* rate limiter turned down is answered 429 without reaching authentication.
C12_ProtectedNeedsAcceptedToken ==
    [][\A w \in Workers :
        /\ \A auth \in AuthHeaders :
              (req[w].protected /\ Serve(w, auth)) =>
                  /\ resp'[w].handler <=>
                        (auth.bearer /\ validateToken(auth.tok, now, now).ok)
                  /\ resp'[w].handler =>
                        /\ resp'[w].user_id = auth.tok.claims.user_id
                        /\ resp'[w].role = auth.tok.claims.role
        /\ (req[w].protected /\ pc[w] # "done" /\ pc'[w] = "done"
                /\ ~resp'[w].handler) =>
                  /\ resp'[w].admitted => (resp'[w].status = 401 /\ resp'[w].auth)
                  /\ ~resp'[w].admitted => (resp'[w].status = 429 /\ ~resp'[w].auth)
      ]_vars

\* the handler of /api/v1/me ran with the identity of the login token for
\* one request, while another was refused for its expired token and a third
\* outcome, a missing header, is the 401 of its own category
C12_Witness ==
    \E w \in Workers, v \in Workers :
        /\ resp[w].by = "Me" /\ resp[w].handler
        /\ resp[w].user_id = "demo-user-id" /\ resp[w].role = "user"
        /\ resp[v].by = "RequireAuth" /\ resp[v].status = 401
        /\ resp[v].msg = "Authorization header is required"

\* C13: RequireRole(r) calls the next handler exactly when the context
\* holds a role and it equals r, where the role in the context of an
\* authenticated request is the role claim of its token; a different role
\* and a context without a role are answered 403 and the next handler is
\* not called.
C13_RoleGate ==
    (rres # None /\ rres.ran) =>
        /\ rres.res.next <=> (rres.ctx.ok /\ rres.ctx.role = rres.required)
        /\ rres.auth # None => (rres.ctx.ok /\ rres.ctx.role = rres.h.tok.claims.role)
        /\ (rres.ctx.ok /\ rres.ctx.role # rres.required) =>
              (rres.res.status = 403 /\ ~rres.res.next)
        /\ ~rres.ctx.ok => (rres.res.status = 403 /\ ~rres.res.next)

\* an authenticated user asked for a route gated to admin and got 403
C13_Witness ==
    /\ rres # None /\ rres.ran /\ rres.auth # None
    /\ rres.ctx = CtxRole("user") /\ rres.required = "admin"
    /\ rres.res.status = 403 /\ rres.res.msg = "Insufficient permissions"

\* C14: an OPTIONS request to the path of any route is answered 204 by the
\* CORS stage, and no later stage (request id, rate limiting,
\* authentication, handler) runs for it.
C14_PreflightShortCircuit ==
    [][\A w \in Workers, path \in Paths, key \in OneKey :
        StartRequest(w, "OPTIONS", path, key) =>
            /\ resp'[w].status = StatusNoContent
            /\ resp'[w].by = "CORS"
            /\ pc'[w] = "done"
            /\ ~resp'[w].admitted /\ ~resp'[w].auth /\ ~resp'[w].handler
      ]_vars

\* C15: whenever a stage after Recovery panicked while a request was being
\* handled, the client got status 500 with the generic error message,
\* Logger made its record of the request, and the worker is free for the
\* next request with the limiter's mutex released.
C15_PanicGives500 ==
    \A w \in Workers :
        resp[w].panicked =>
            /\ resp[w].status = 500
            /\ resp[w].msg = "Internal server error"
            /\ resp[w].logged # 0
            /\ pc[w] = "done"
            /\ mu.w # w /\ w \notin mu.r

\* the last call got as far as the use case through its handler
Reached(c) ==
    /\ c.body # BadBody
    /\ c.strategy = "A" => (c.body.signature # EmptySig /\ c.body.message # Text(""))
    /\ c.strategy = "B" => c.body.transaction_hash # ""

\* C16: message-signature strategy.  An address that fails validation gives
\* is_owner = false and no error; a signature that cannot be decoded gives
\* an internal error (HTTP 500) and no result; a decodable signature that
\* does not verify gives is_owner = false and HTTP 401; is_owner = true
\* (HTTP 200) is given exactly when the signature verifies for the supplied
\* message under the supplied key.
C16_SignatureStrategy ==
    (vo # None /\ vo.call.strategy = "A" /\ vo.call.body # BadBody) =>
        LET c == vo.call
            key == c.key
            sig == c.body.signature
            msg == c.body.message
        IN  /\ ~isValidStellarPublicKey(key) =>
                  /\ c.res.err = None /\ ~c.res.out.is_owner
                  /\ Reached(c) => c.http.status = 401
            /\ (isValidStellarPublicKey(key) /\ ~sig.b64) =>
                  /\ c.res.out = None /\ c.res.err # None
                  /\ c.res.err.Type = "INTERNAL_ERROR"
                  /\ Reached(c) => (c.http.status = 500 /\ ~c.http.success)
            /\ (isValidStellarPublicKey(key) /\ sig.b64 /\ ~Verify(key, msg, sig)) =>
                  /\ c.res.err = None /\ ~c.res.out.is_owner
                  /\ Reached(c) => (c.http.status = 401 /\ c.http.data = c.res.out)
            /\ (isValidStellarPublicKey(key) /\ sig.b64 /\ Verify(key, msg, sig)) =>
                  /\ c.res.err = None /\ c.res.out.is_owner
                  /\ Reached(c) => (c.http.status = 200 /\ c.http.data = c.res.out)
            /\ c.http.status = 200 =>
                  (key \in ValidKeys /\ sig.signer = key /\ sig.msg = msg)

\* a signature made by another key over the same message was answered 401
C16_Witness ==
    /\ vo # None /\ vo.call.strategy = "A" /\ vo.call.body # BadBody
    /\ vo.call.key = "GALICE"
    /\ vo.call.body.signature = Sign("GBOB", Text("hello"))
    /\ vo.call.body.message = Text("hello")
    /\ vo.call.http.status = 401 /\ ~vo.call.res.out.is_owner

C18_TransactionStrategy ==
    (vo # None /\ vo.call.strategy = "B" /\ isValidStellarPublicKey(vo.call.key)) =>
        LET c == vo.call IN
            /\ c.reply.err # "" =>
                  /\ c.res.out = None /\ c.res.err # None
                  /\ c.res.err.Type = "BLOCKCHAIN_ERROR"
                  /\ Reached(c) => (c.http.status = 502 /\ ~c.http.success)
            /\ (c.reply.err = "" /\ c.reply.Account # c.key) =>
                  (c.res.err = None /\ ~c.res.out.is_owner)
            /\ (c.reply.err = "" /\ c.reply.Account = c.key) =>
                  /\ c.res.err = None
                  /\ c.res.out.is_owner <=> ~(c.t - c.reply.LedgerCloseTime > TxMaxAge)
            /\ (Reached(c) /\ c.res.err = None) =>
                  c.http.status = IF c.res.out.is_owner THEN 200 ELSE 401

\* an unknown transaction hash was answered 502
C18_Witness ==
    /\ vo # None /\ vo.call.strategy = "B"
    /\ vo.call.key = "GALICE" /\ vo.call.body # BadBody
    /\ vo.call.body.transaction_hash = "abc123"
    /\ vo.call.reply.err = "404 Not Found"
    /\ vo.call.http.status = 502

\* C19: account strategy, for a valid address.  Any error of the ledger
\* client gives is_owner = false with a message and no error; for a fetched
\* account is_owner is true exactly when it has a last-modified time less
\* than AcctMaxAge before now.
C19_AccountStrategy ==
    (vo # None /\ vo.call.strategy = "C" /\ isValidStellarPublicKey(vo.call.key)) =>
        LET c == vo.call IN
            /\ c.res.err = None
            /\ c.reply.err # "" =>
                  /\ ~c.res.out.is_owner
                  /\ c.res.out.message = "Account not found on Stellar network"
            /\ c.reply.err = "" =>
                  c.res.out.is_owner <=>
                      (~c.reply.LastModifiedTime.nil
                        /\ c.t - c.reply.LastModifiedTime.at < AcctMaxAge)
            /\ c.http.status = IF c.res.out.is_owner THEN 200 ELSE 401

\* an account last modified exactly AcctMaxAge ago was turned down
C19_Witness ==
    /\ vo # None /\ vo.call.strategy = "C" /\ vo.call.key = "GBOB"
    /\ vo.call.reply.err = "" /\ ~vo.call.reply.LastModifiedTime.nil
    /\ vo.call.t - vo.call.reply.LastModifiedTime.at = AcctMaxAge
    /\ ~vo.call.res.out.is_owner
    /\ vo.call.res.out.message = "Account has no recent activity"

\* C20: in every strategy that consults the ledger, a failure of the ledger
\* service reaches the caller as a typed error and never as an
\* is_owner = false result.
C20_LedgerFailureIsError ==
    (vo # None /\ vo.call.strategy \in {"B", "C"}
        /\ isValidStellarPublicKey(vo.call.key) /\ vo.call.reply.err # "") =>
        /\ vo.call.res.err # None
        /\ vo.call.res.out = None

\* the input of the last call is malformed (address, body, fields or the
\* base64 of the signature) and the ledger, where consulted, answered
MalformedInput(c) ==
    /\ c.strategy \in {"B", "C"} => c.reply.err = ""
    /\ \/ c.body = BadBody
       \/ ~isValidStellarPublicKey(c.key)
       \/ c.strategy = "A" /\ (~c.body.signature.b64
                                  \/ c.body.signature = EmptySig
                                  \/ c.body.message = Text(""))
       \/ c.strategy = "B" /\ c.body.transaction_hash = ""

\* C21: on the ownership-verification endpoints a request whose only defect
\* is malformed input (badly formed address, signature that is not valid
\* base64, missing or undecodable body fields) is answered with a negative
\* result or HTTP 400, and never with HTTP 500.
C21_MalformedInputNever500 ==
    (vo # None /\ MalformedInput(vo.call)) =>
        /\ vo.call.http.status # 500
        /\ \/ vo.call.http.status = 400
           \/ /\ vo.call.http.data # None
              /\ ~vo.call.http.data.is_owner

\* C22: GET /challenge for any 56-character key starting with 'G' returns
\* 200 with a non-empty challenge of the form
\* unix_seconds.nonce.domain.public_key that contains exactly three '.'
\* separators, for every configured domain; any other key gets 400.
C22_ChallengeEndpoint ==
    \A w \in Workers : cres[w] # None =>
        IF StrLen(cres[w].key) = 56 /\ FirstByte(cres[w].key).byte = "G"
            THEN /\ cres[w].http.status = 200
                 /\ cres[w].http.data.Challenge # Text("")
                 /\ cres[w].http.data.Challenge.public_key = cres[w].key
                 /\ cres[w].http.data.Challenge.domain = Domain
                 /\ cres[w].http.data.Challenge.timestamp = cres[w].t \div TicksPerSecond
                 /\ Separators(cres[w].http.data.Challenge) = 3
        ELSE cres[w].http.status = 400

\* worker w's last GET challenge request returned a non-empty challenge
Challenged(w) ==
    /\ cres[w] # None
    /\ cres[w].http.status = 200
    /\ cres[w].http.data.Challenge # Text("")

\* C23: every challenge carries a unique nonce: any two GenerateChallenge
\* calls that return a non-empty challenge, concurrent calls of different
\* request workers for the same public key included, return different
\* challenge strings.
C23_UniqueNonce ==
    \A w1, w2 \in Workers :
        (w1 # w2 /\ Challenged(w1) /\ Challenged(w2)) =>
            cres[w1].http.data.Challenge # cres[w2].http.data.Challenge

\* C24: address validation, in the use case, in the account handler and in
\* the request validator, returns false without faulting for every string
\* that is not exactly 56 characters long or does not start with 'G', the
\* empty string and 56-character strings with another first character
\* included.
C24_AddressValidationRejects ==
    (kres # None /\ (StrLen(kres.key) # 56 \/ ~HasPrefix(kres.key, "G"))) =>
        /\ ~kres.panics
        /\ ~kres.usecase
        /\ ~kres.handler
        /\ ~kres.middleware

C24_Witness ==
    /\ kres # None
    /\ kres.key = "SSEED"
    /\ StrLen(kres.key) = 56
    /\ ~kres.usecase /\ ~kres.handler /\ ~kres.middleware /\ ~kres.panics

\* C25: every token that validateToken accepts (any token signed with the
\* configured secret, not only those made by GenerateToken) carries an
\* expires_at claim, and that expires_at is later than the validation time.
C25_AcceptedHasFutureExpiry ==
    (vres # None /\ vres.res.ok) =>
        /\ vres.tok.claims.exp # NoClaim
        /\ vres.tok.claims.exp > vres.t1

\* no request of key k is between getLimiter and the end of updateLastSeen
Settled(k, p, r) == \A w \in Workers : p[w] \in {"idle", "next", "done"} \/ r[w].key # k

\* C26: last_seen of a key is the time of that key's most recent request,
\* whether the request was admitted or rejected with 429; consequently a
\* sweep pass never evicts the entry of a key that sent a request within
\* the last 2 x cleanup_interval, and leaves every such entry and its bucket
\* state unchanged.
C26_LastSeenIsLatestRequest ==
    [][/\ \A k \in DOMAIN limiters' :
            (Settled(k, pc', req') /\ hist'[k].lastReq # 0 - 1) =>
                limiters'[k].lastSeen >= hist'[k].lastReq
       /\ (sweepPc = "cleanup_cs" /\ sweepPc' = "cleanup_unlock") =>
            \A k \in DOMAIN limiters :
                (hist[k].lastReq # 0 - 1 /\ ~(hist[k].lastReq < cutoff')) =>
                    /\ k \in DOMAIN limiters'
                    /\ limiters'[k] = limiters[k]
                    /\ heap'[limiters[k].limiter] = heap[limiters[k].limiter]]_vars

\* C27: for every interleaving of a request for key k with a sweep pass:
\* when an admitted request has finished the rate-limit stage, the map holds
\* an entry for k whose last_seen is that request's time, and the token the
\* request consumed was taken from the bucket that is stored in the map for
\* k, never from a bucket the sweep has already removed.
C27_AdmittedRequestIsRecorded ==
    [][\A w \in Workers :
          (pc[w] = "updateLastSeen_cs" /\ pc'[w] = "next") =>
              /\ req[w].key \in DOMAIN limiters'
              /\ limiters'[req[w].key].lastSeen = now
              /\ limiters'[req[w].key].limiter = hist[req[w].key].bucket]_vars

\* C28: eviction never loosens the limit: for any key, any request times
\* and any schedule of sweep passes, the number of requests admitted for
\* that key up to any instant is at most the number a single never-evicted
\* token bucket with burst B and rate R would have admitted for the same
\* request times.
C28_EvictionNeverLoosens ==
    \A k \in ClientKeys : hist[k].lead >= 0

\* C29: once Close has returned no further sweep pass runs: no entry is
\* removed from the limiter map after that point, whatever ticks were
\* pending when Close was called.
C29_NoSweepAfterClose ==
    [][closed => (sweepPc' # "cleanup_cs"
                  /\ \A k \in DOMAIN limiters : k \in DOMAIN limiters')]_vars



\* C30: in every JSON response the API writes, the envelope field success
\* is true exactly when the HTTP status is 2xx, and the error object is
\* present exactly when success is false; this holds for the verification
\* endpoints when the caller is found not to be the owner.
C30_EnvelopeMatchesStatus ==
    vo # None =>
        /\ vo.call.http.success <=> vo.call.http.status \in 200..299
        /\ vo.call.http.error # "" <=> ~vo.call.http.success
        /\ vo.call.http.data = None <=> ~vo.call.http.success

====
